---- MODULE Spec2Model ----
(***************************************************************************)
(* Model of the BLE session layer of ShellRacingRemote (src/control.py):   *)
(* BleController.run / send_control / _write_pending / stop and the        *)
(* notification set-up and tear-down, as asyncio tasks interleaving at     *)
(* their await points.  One action is one run of a task from an await      *)
(* point (or its start) to the next await point (or its end).              *)
(*                                                                         *)
(* The transport (bleak's BleakClient) is the environment: each call       *)
(* returns or raises, and the model takes both outcomes.                   *)
(***************************************************************************)
EXTENDS Integers, Sequences, FiniteSets, TLC

\* ------------------------------------------------------------------ bounds
NumSubmit == 2      \* send_control tasks created by the front end
NumLate == 1        \* further send_control tasks, in the specification SpecIntent
NumStop == 2        \* stop() calls made
MaxCancels == 1     \* task.cancel() calls delivered to the run() task
NumRequest == 1     \* request_battery tasks created by the front end
MaxNotify == 2      \* notifications the transport delivers
MaxPush == 4        \* _queue_ui calls made on the event queue
MaxQueue == 2       \* maxsize of a bounded event queue
NumQuit == 2        \* shutdown() calls made by the front end

\* --------------------------------------------------------- packet codec
\* ControlState values the front end submits (bool fields as TRUE/FALSE).
CommandStates ==
    [mode : {1}, throttle : {0, 1}, steering : {0},
     lights : {FALSE}, turbo : {FALSE}, donut : {FALSE}]

BoolToInt(b) == IF b THEN 1 ELSE 0

\* The forward flag set for any throttle but zero.
build_control_payload_moving(state) ==
    << state.mode % 256,
       IF state.throttle # 0 THEN 1 ELSE 0,
       IF state.throttle < 0 THEN 1 ELSE 0,
       IF state.steering < 0 THEN 1 ELSE 0,
       IF state.steering > 0 THEN 1 ELSE 0,
       BoolToInt(state.lights),
       BoolToInt(state.turbo),
       BoolToInt(state.donut) >>

build_control_payload(state) ==
    << state.mode % 256,
       IF state.throttle > 0 THEN 1 ELSE 0,
       IF state.throttle < 0 THEN 1 ELSE 0,
       IF state.steering < 0 THEN 1 ELSE 0,
       IF state.steering > 0 THEN 1 ELSE 0,
       BoolToInt(state.lights),
       BoolToInt(state.turbo),
       BoolToInt(state.donut) >>

Payloads == { build_control_payload(s) : s \in CommandStates }

\* The validation tool's encoder with the mode left at its default 0x01.
test_build_control_payload_default(throttle, steering, lights, turbo, donut, mode) ==
    LET forward == IF throttle > 0 THEN 1 ELSE 0
        reverse == IF throttle < 0 THEN 1 ELSE 0
        turn_left == IF steering < 0 THEN 1 ELSE 0
        turn_right == IF steering > 0 THEN 1 ELSE 0
    IN << 1, forward, reverse, turn_left, turn_right,
          BoolToInt(lights), BoolToInt(turbo), BoolToInt(donut) >>

\* build_control_payload of src/test.py (lines 14-40).
test_build_control_payload(throttle, steering, lights, turbo, donut, mode) ==
    LET forward == IF throttle > 0 THEN 1 ELSE 0
        reverse == IF throttle < 0 THEN 1 ELSE 0
        turn_left == IF steering < 0 THEN 1 ELSE 0
        turn_right == IF steering > 0 THEN 1 ELSE 0
    IN << mode % 256, forward, reverse, turn_left, turn_right,
          BoolToInt(lights), BoolToInt(turbo), BoolToInt(donut) >>

\* bytes.hex(): two lower-case hexadecimal digits per byte, as a sequence of
\* characters.
HexDigits ==
    << "0", "1", "2", "3", "4", "5", "6", "7",
       "8", "9", "a", "b", "c", "d", "e", "f" >>

Hex(data) ==
    [i \in 1 .. 2 * Len(data) |->
        IF i % 2 = 1
        THEN HexDigits[(data[(i + 1) \div 2] \div 16) + 1]
        ELSE HexDigits[(data[i \div 2] % 16) + 1]]

\* A dict is a record of its keys; the empty dict is the empty function.
EmptyDict == << >>

\* The left and right fields read from each other's byte.
decode_status_payload_swapped(data) ==
    LET length == Len(data) IN
    IF length = 1
    THEN [length |-> length, battery_pct |-> data[1]]
    ELSE IF length = 8
    THEN [length |-> length, mode |-> data[1], forward |-> data[2],
          reverse |-> data[3], left |-> data[5], right |-> data[4],
          lights |-> data[6], turbo |-> data[7], donut |-> data[8]]
    ELSE [length |-> length, raw |-> Hex(data)]

\* Any string of eight bytes or more taken for a status frame.
decode_status_payload_prefix(data) ==
    LET length == Len(data) IN
    IF length = 1
    THEN [length |-> length, battery_pct |-> data[1]]
    ELSE IF length >= 8
    THEN [length |-> length, mode |-> data[1], forward |-> data[2],
          reverse |-> data[3], left |-> data[4], right |-> data[5],
          lights |-> data[6], turbo |-> data[7], donut |-> data[8]]
    ELSE [length |-> length, raw |-> Hex(data)]

decode_status_payload(data) ==
    LET length == Len(data) IN
    IF length = 1
    THEN [length |-> length, battery_pct |-> data[1]]
    ELSE IF length = 8
    THEN [length |-> length, mode |-> data[1], forward |-> data[2],
          reverse |-> data[3], left |-> data[4], right |-> data[5],
          lights |-> data[6], turbo |-> data[7], donut |-> data[8]]
    ELSE [length |-> length, raw |-> Hex(data)]

\* Optional[bytes]: None is the empty tuple, a present value p is <<p>>.
None == << >>
Some(p) == << p >>

\* Values the battery characteristic read returns (b"" is the empty tuple).
BatteryData == { << >>, << 42 >> }

\* ------------------------------------------------------------------ tasks
RunTask == 0
Submitters == 1 .. NumSubmit
LateSubmitters == (NumSubmit + 1) .. (NumSubmit + NumLate)
NumSend == NumSubmit + NumLate
Senders == Submitters \cup LateSubmitters
Stoppers == (NumSend + 1) .. (NumSend + NumStop)
Requesters ==
    (NumSend + NumStop + 1) .. (NumSend + NumStop + NumRequest)
NumCore == NumSend + NumStop + NumRequest
\* PygameApp.shutdown calls: the tasks lines 291 and 386 create and the call
\* of line 279.
Quitters == (NumCore + 1) .. (NumCore + NumQuit)

\* The transport's delivery path, on which the two notification callbacks
\* run; they are no tasks but they put items on the queue.
StatusCallback == -2
BatteryCallback == -3
Callbacks == {StatusCallback, BatteryCallback}

Procs ==
    {RunTask} \cup Submitters \cup LateSubmitters \cup Stoppers
        \cup Requesters \cup Quitters \cup Callbacks
NoProc == -1

VARIABLES
    pc,              \* position of every task
    wp,              \* _write_pending's local `payload` of every draining task
    client,          \* self._client is set (TRUE) or None (FALSE)
    status_notify,   \* self._status_notify
    battery_notify,  \* self._battery_notify
    stop_event,      \* self._stop_event is set
    stopped,         \* self._stopped
    pending,         \* self._pending_payload
    last_sent,       \* self._last_sent_payload
    last_payload,    \* self.state.last_payload
    battery_pct,     \* self.state.battery_pct
    lock_holder,     \* task holding self._write_lock, or NoProc
    lock_waiters,    \* tasks queued on self._write_lock, first come first
    ui_queue,        \* the items put on self.ui_queue, by producing task
    exc,             \* exception in flight in run(): "none", "error", "cancel"
    result,          \* run(): "running", or ended "returned", "cancelled", "raised"
    transport,       \* calls made on the BleakClient, and the connect outcome
    ncancel,         \* cancel() calls delivered so far
    calls,           \* send_control calls that got past line 185, with the state they met
    writes,          \* payloads handed to write_gatt_char, in order
    last_status,     \* self.state.last_status
    last_status_hex, \* self.state.last_status_hex
    nnotify,         \* notifications delivered so far
    chan,            \* the asyncio.Queue: the items in it, oldest first
    maxsize,         \* its maxsize (0: unbounded)
    consumer,        \* ui_consumer: "get" (in its loop) or "done"
    delivered,       \* items handed to _handle_ui_message, in order
    offered,         \* the _queue_ui calls made on the queue, in order
    cstate,          \* codec: the ControlState handed to build_control_payload
    cpayload,        \* codec: the payload it built, if any
    cframe,          \* codec: decode_status_payload of that payload, if any
    cdata,           \* codec: a byte string handed to decode_status_payload
    creading,        \* codec: what it returned, if anything
    tpayload,        \* codec: the payload src/test.py built, if any
    unsub_raised,    \* the stop_notify calls seen to raise, as <<task, name>>
    running,         \* PygameApp.running
    state,           \* PygameApp.state: the ControlState the keys drive
    throttle_keys_down,  \* PygameApp.throttle_keys_down
    last_throttle_key,   \* PygameApp.last_throttle_key
    created,         \* the tasks the front end has created, in order
    shut_connected,  \* the shutdown calls that found a client stored
    arg              \* the payload each created send_control task was given

vars == << pc, wp, client, status_notify, battery_notify, stop_event, stopped,
           pending, last_sent, last_payload, battery_pct, lock_holder,
           lock_waiters, ui_queue, exc, result, transport, ncancel, calls,
           writes, last_status, last_status_hex, nnotify, chan, maxsize,
           consumer, delivered, offered, cstate, cpayload, cframe, cdata,
           creading, tpayload, unsub_raised, running, state,
           throttle_keys_down, last_throttle_key, created, shut_connected,
           arg >>

\* The event queue and its consumer.
channel == << chan, maxsize, consumer, delivered, offered >>

\* The packet codec's inputs and results.
codec == << cstate, cpayload, cframe, cdata, creading, tpayload >>

\* The front end: its running flag, its control state and keys, and the
\* tasks it has created.
front == << running, state, throttle_keys_down, last_throttle_key, created,
            shut_connected, arg >>

\* The state of the BleController apart from the tasks' positions, and the
\* rest of the state the front end's own steps leave alone.
core == << wp, client, status_notify, battery_notify, stop_event, stopped,
           pending, last_sent, last_payload, battery_pct, lock_holder,
           lock_waiters, ui_queue, exc, result, transport, ncancel, calls,
           writes >>

beyond == << last_status, last_status_hex, nnotify, channel, codec,
             unsub_raised >>

\* The state only the notification callbacks, the queue and its consumer,
\* and the codec on its own touch.
aux == << last_status, last_status_hex, nnotify, channel, codec,
          unsub_raised, front >>

\* The state of the session and its tasks.
sessionvars ==
    << pc, wp, client, status_notify, battery_notify, stop_event, stopped,
       pending, last_sent, last_payload, battery_pct, lock_holder,
       lock_waiters, ui_queue, exc, result, transport, ncancel, calls,
       writes, last_status, last_status_hex, nnotify, unsub_raised, front >>

Event(kind, data) == [kind |-> kind, data |-> data]

\* self._queue_ui called by task t: put_nowait on the queue.  PygameApp
\* builds the queue with asyncio.Queue(), whose maxsize 0 means it is never
\* full, so every item is kept.  The session only ever puts; ui_queue keeps,
\* for every task, the items that task has put, in order.
queue_ui(q, t, item) == [q EXCEPT ![t] = Append(@, item)]

\* ControlState() as PygameApp builds it (line 247).
DefaultState ==
    [mode |-> 1, throttle |-> 0, steering |-> 0, lights |-> FALSE,
     turbo |-> FALSE, donut |-> FALSE]

\* The front end when PygameApp.run has created the run() task (line 273)
\* and mainloop has set the running flag (line 286), which it does before
\* any task takes a step.
InitFront ==
    /\ running = TRUE
    /\ state = DefaultState
    /\ throttle_keys_down = {}
    /\ last_throttle_key = "None"
    /\ created = << >>
    /\ shut_connected = {}
    /\ arg = [t \in Procs |-> None]

InitSession ==
    /\ pc = [t \in Procs |-> "idle"]
    /\ wp = [t \in Procs |-> << >>]
    /\ client = FALSE
    /\ status_notify = FALSE
    /\ battery_notify = FALSE
    /\ stop_event = FALSE
    /\ stopped = FALSE
    /\ pending = None
    /\ last_sent = None
    /\ last_payload = << >>
    /\ battery_pct = None
    /\ lock_holder = NoProc
    /\ lock_waiters = << >>
    /\ ui_queue = [t \in Procs |-> << >>]
    /\ exc = "none"
    /\ result = "running"
    /\ transport = [connect |-> "none", sub_status |-> 0, sub_battery |-> 0,
                    unsub_status |-> 0, unsub_battery |-> 0, reads |-> 0,
                    disconnects |-> 0]
    /\ ncancel = 0
    /\ calls = << >>
    /\ writes = << >>
    /\ last_status = EmptyDict
    /\ last_status_hex = << >>
    /\ nnotify = 0
    /\ chan = << >>
    /\ consumer = "get"
    /\ delivered = << >>
    /\ offered = << >>
    /\ cpayload = None
    /\ cframe = EmptyDict
    /\ creading = EmptyDict
    /\ tpayload = None
    /\ unsub_raised = {}
    /\ InitFront

\* PygameApp builds the queue with asyncio.Queue() (line 248).
Init ==
    /\ InitSession
    /\ maxsize = 0
    /\ cstate = DefaultState
    /\ cdata = << >>

\* ------------------------------------------------------------- write lock
\* asyncio.Lock: acquire() returns at once when the lock is unlocked and
\* nobody waits; otherwise the caller queues.  release() wakes the first
\* waiter, and no other task can take the lock before that waiter runs, so
\* the lock passes to it.
LockIgnored == TRUE

LockFree == lock_holder = NoProc /\ lock_waiters = << >>

HolderAfterRelease ==
    IF lock_waiters = << >> THEN NoProc ELSE Head(lock_waiters)

WaitersAfterRelease ==
    IF lock_waiters = << >> THEN << >> ELSE Tail(lock_waiters)

\* pc after the release: the woken waiter resumes inside `async with`.
Woken(pcv) ==
    IF lock_waiters = << >> THEN pcv
    ELSE [pcv EXCEPT ![Head(lock_waiters)] = "locked"]

\* ----------------------------------------------------------- _write_pending
\* The loop going on for as long as a payload is pending.
DrainMoreIgnoringClient(pend) == pend # None

\* The loop going on until the session is stopped.
DrainMoreUnlessStopped(pend) == pend # None /\ ~stopped

\* The condition of the drain loop, line 197.
DrainMore(pend) == pend # None /\ client

\* What follows _write_pending in its caller: run() goes on to
\* _read_battery (line 113) and calls read_gatt_char; send_control returns.
\* What follows send_control in its caller: shutdown goes on to stop()
\* (line 427), a task made for the call ends.
Returned(t) == IF t \in Quitters THEN "stop" ELSE "done"

AfterDrainPc(t) == IF t = RunTask THEN "read_battery" ELSE Returned(t)

AfterDrainTransport(t) ==
    IF t = RunTask THEN [transport EXCEPT !.reads = @ + 1] ELSE transport

\* The loop of lines 197-211, run by the task t that holds the lock, with
\* `pend` the value of the pending slot: take the payload and start the
\* write, or leave the loop, release the lock and return to the caller.
DrainLoop(t, pend) ==
    IF DrainMore(pend)
    THEN /\ pending' = None
         /\ wp' = [wp EXCEPT ![t] = pend[1]]
         /\ writes' = Append(writes, pend[1])
         /\ pc' = [pc EXCEPT ![t] = "write"]
         /\ lock_holder' = t
         /\ UNCHANGED << lock_waiters, transport >>
    ELSE /\ pending' = pend
         /\ lock_holder' = HolderAfterRelease
         /\ lock_waiters' = WaitersAfterRelease
         /\ pc' = Woken([pc EXCEPT ![t] = AfterDrainPc(t)])
         /\ transport' = AfterDrainTransport(t)
         /\ UNCHANGED << wp, writes >>

\* `break` out of the loop after a failed write: release and return.
DrainBreak(t) ==
    /\ lock_holder' = HolderAfterRelease
    /\ lock_waiters' = WaitersAfterRelease
    /\ pc' = Woken([pc EXCEPT ![t] = AfterDrainPc(t)])
    /\ transport' = AfterDrainTransport(t)
    /\ UNCHANGED << pending, wp, writes >>

\* _write_pending from its first line, called by task t with the pending
\* slot holding `pend`: return if there is no client, else take the lock
\* (or queue for it) and drain.
WritePending(t, pend) ==
    IF ~client
    THEN /\ pending' = pend
         /\ pc' = [pc EXCEPT ![t] = AfterDrainPc(t)]
         /\ transport' = AfterDrainTransport(t)
         /\ UNCHANGED << wp, writes, lock_holder, lock_waiters >>
    ELSE IF LockFree
    THEN DrainLoop(t, pend)
    ELSE /\ pending' = pend
         /\ pc' = [pc EXCEPT ![t] = "lock_wait"]
         /\ lock_waiters' = Append(lock_waiters, t)
         /\ UNCHANGED << wp, writes, lock_holder, transport >>

\* A task woken with the lock evaluates the loop condition.
DrainResume(t) ==
    /\ pc[t] = "locked"
    /\ lock_holder = t
    /\ DrainLoop(t, pending)
    /\ UNCHANGED << client, status_notify, battery_notify, stop_event, stopped,
                    last_sent, last_payload, battery_pct, ui_queue, exc, result,
                    ncancel, calls >>
    /\ UNCHANGED aux

\* write_gatt_char returned: lines 209-211, then the loop again.
WriteOk(t) ==
    /\ pc[t] = "write"
    /\ last_sent' = Some(wp[t])
    /\ last_payload' = wp[t]
    /\ ui_queue' = queue_ui(ui_queue, t, Event("payload", wp[t]))
    /\ DrainLoop(t, pending)
    /\ UNCHANGED << client, status_notify, battery_notify, stop_event, stopped,
                    battery_pct, exc, result, ncancel, calls >>
    /\ UNCHANGED aux

\* write_gatt_char raised and the payload goes back into the slot for the
\* loop to take again.
WriteFailRetries(t) ==
    /\ pc[t] = "write"
    /\ ui_queue' = queue_ui(ui_queue, t, Event("error", "ERROR sending command"))
    /\ DrainLoop(t, Some(wp[t]))
    /\ UNCHANGED << client, status_notify, battery_notify, stop_event, stopped,
                    last_sent, last_payload, battery_pct, exc, result, ncancel,
                    calls >>
    /\ UNCHANGED aux

\* write_gatt_char raised: lines 206-208.
WriteFail(t) ==
    /\ pc[t] = "write"
    /\ ui_queue' = queue_ui(ui_queue, t, Event("error", "ERROR sending command"))
    /\ DrainBreak(t)
    /\ UNCHANGED << client, status_notify, battery_notify, stop_event, stopped,
                    last_sent, last_payload, battery_pct, exc, result, ncancel,
                    calls >>
    /\ UNCHANGED aux

\* ------------------------------------------------------------- send_control
NeverDropped == FALSE

\* Line 185.
Dropped == stopped

NeverSuppressed(payload) == FALSE

\* Line 187.
Suppressed(payload) == Some(payload) = last_sent /\ pending = None

\* Line 189: the slot takes the new payload, whatever it held.
KeepsQueuedPayload(payload) == IF pending # None THEN pending ELSE Some(payload)

Submitted(payload) == Some(payload)

CallRecord(payload) ==
    [payload |-> payload, client |-> client, nwrites |-> Len(writes)]

\* The payloads a call may carry.  The session only compares payloads for
\* equality, so the first call's payload is fixed and the later ones range
\* over all of them.
PayloadChoices ==
    IF calls = << >> THEN { CHOOSE p \in Payloads : TRUE } ELSE Payloads

\* Tasks are created in order and the loop starts them in that order.
MayStart(t, first) == pc[t] = "idle" /\ (t = first \/ pc[t - 1] # "idle")

\* send_control called by task t, up to its first await or its return.
send_control(t, payload) ==
    /\ calls' = IF Dropped THEN calls ELSE Append(calls, CallRecord(payload))
    /\ IF Dropped \/ Suppressed(payload)
       THEN /\ pc' = [pc EXCEPT ![t] = Returned(t)]
            /\ UNCHANGED << pending, wp, writes, lock_holder, lock_waiters,
                            transport >>
       ELSE IF client
       THEN WritePending(t, Submitted(payload))
       ELSE /\ pending' = Submitted(payload)
            /\ pc' = [pc EXCEPT ![t] = Returned(t)]
            /\ UNCHANGED << wp, writes, lock_holder, lock_waiters, transport >>
    /\ UNCHANGED << client, status_notify, battery_notify, stop_event, stopped,
                    last_sent, last_payload, battery_pct, ui_queue, exc, result,
                    ncancel >>
    /\ UNCHANGED aux

\* The call made by a task of its own.
SendControl(t, payload) == MayStart(t, 1) /\ send_control(t, payload)

\* ---------------------------------------------------- _disable_notifications
\* The unsubscribe _disable_notifications issues next: at its start (lines
\* 137-140), after the status unsubscribe (line 147), after the battery one.
NextUnsub(stage) ==
    CASE stage = "start" ->
           IF ~client THEN "none"
           ELSE IF status_notify THEN "status"
           ELSE IF battery_notify THEN "battery"
           ELSE "none"
      [] stage = "status" -> IF battery_notify THEN "battery" ELSE "none"
      [] OTHER -> "none"

\* How run() ends once its finally block is through: an exception still in
\* flight leaves run() (a CancelledError is re-raised by lines 115-116),
\* a handled one does not.
RunResult(e) ==
    CASE e = "cancel" -> "cancelled"
      [] e = "error" -> "raised"
      [] OTHER -> "returned"

\* _disable_notifications from `stage` on, in task t, up to its next await;
\* when it returns in run(), lines 121-122 follow.  q and tr are the queue
\* and the transport log as the calling step has left them, e the exception
\* in flight in run().
Disable(t, stage, q, tr, e) ==
    LET nxt == NextUnsub(stage) IN
    IF nxt = "status"
    THEN /\ pc' = [pc EXCEPT ![t] = "unsub_status"]
         /\ transport' = [tr EXCEPT !.unsub_status = @ + 1]
         /\ ui_queue' = q
         /\ UNCHANGED << client, result >>
    ELSE IF nxt = "battery"
    THEN /\ pc' = [pc EXCEPT ![t] = "unsub_battery"]
         /\ transport' = [tr EXCEPT !.unsub_battery = @ + 1]
         /\ ui_queue' = q
         /\ UNCHANGED << client, result >>
    ELSE IF t = RunTask
    THEN /\ client' = FALSE
         /\ ui_queue' = queue_ui(q, t, Event("disconnected", "None"))
         /\ pc' = [pc EXCEPT ![t] = "done"]
         /\ result' = RunResult(e)
         /\ transport' = tr
    ELSE /\ pc' = [pc EXCEPT ![t] = "done"]
         /\ ui_queue' = q
         /\ transport' = tr
         /\ UNCHANGED << client, result >>

\* stop_notify(STATUS) returned or raised: either way line 146 runs.
UnsubStatusReturn(t) ==
    /\ pc[t] = "unsub_status"
    /\ status_notify' = FALSE
    /\ Disable(t, "status", ui_queue, transport, exc)
    /\ UNCHANGED << wp, battery_notify, stop_event, stopped, pending, last_sent,
                    last_payload, battery_pct, lock_holder, lock_waiters, exc,
                    ncancel, calls, writes >>
    /\ UNCHANGED aux

\* stop_notify(BATTERY) returned or raised: either way line 153 runs.
UnsubBatteryReturn(t) ==
    /\ pc[t] = "unsub_battery"
    /\ battery_notify' = FALSE
    /\ Disable(t, "battery", ui_queue, transport, exc)
    /\ UNCHANGED << wp, status_notify, stop_event, stopped, pending, last_sent,
                    last_payload, battery_pct, lock_holder, lock_waiters, exc,
                    ncancel, calls, writes >>
    /\ UNCHANGED aux

\* The same two returns with the outcome of the call told apart: stop_notify
\* returned (ok) or raised an Exception, which lines 143-144 and 150-151
\* swallow.  unsub_raised keeps the calls that raised.
Raised(t, name, ok) ==
    IF ok THEN unsub_raised ELSE unsub_raised \cup { << t, name >> }

\* A raising stop_notify(STATUS) leaving _disable_notifications: the flag is
\* cleared on the way out, and in run() the error leaves the finally block.
StopNotifyStatusFatal(t, ok) ==
    /\ pc[t] = "unsub_status"
    /\ unsub_raised' = Raised(t, "status", ok)
    /\ status_notify' = FALSE
    /\ IF ok
       THEN /\ Disable(t, "status", ui_queue, transport, exc)
            /\ exc' = exc
       ELSE /\ pc' = [pc EXCEPT ![t] = "done"]
            /\ result' = IF t = RunTask THEN "raised" ELSE result
            /\ exc' = IF t = RunTask THEN "error" ELSE exc
            /\ UNCHANGED << client, ui_queue, transport >>
    /\ UNCHANGED << wp, battery_notify, stop_event, stopped, pending, last_sent,
                    last_payload, battery_pct, lock_holder, lock_waiters,
                    ncancel, calls, writes >>
    /\ UNCHANGED << last_status, last_status_hex, nnotify, channel, codec,
                    front >>

\* Lines 141-146.
StopNotifyStatus(t, ok) ==
    /\ pc[t] = "unsub_status"
    /\ unsub_raised' = Raised(t, "status", ok)
    /\ status_notify' = FALSE
    /\ Disable(t, "status", ui_queue, transport, exc)
    /\ exc' = exc
    /\ UNCHANGED << wp, battery_notify, stop_event, stopped, pending, last_sent,
                    last_payload, battery_pct, lock_holder, lock_waiters,
                    ncancel, calls, writes >>
    /\ UNCHANGED << last_status, last_status_hex, nnotify, channel, codec,
                    front >>

\* Lines 148-153.
StopNotifyBattery(t, ok) ==
    /\ pc[t] = "unsub_battery"
    /\ unsub_raised' = Raised(t, "battery", ok)
    /\ battery_notify' = FALSE
    /\ Disable(t, "battery", ui_queue, transport, exc)
    /\ exc' = exc
    /\ UNCHANGED << wp, status_notify, stop_event, stopped, pending, last_sent,
                    last_payload, battery_pct, lock_holder, lock_waiters,
                    ncancel, calls, writes >>
    /\ UNCHANGED << last_status, last_status_hex, nnotify, channel, codec,
                    front >>

\* --------------------------------------------------------------------- stop
NeverAlreadyStopped == FALSE

\* Line 226.
AlreadyStopped == stopped

\* stop called by task t, up to its first await or its return.
stop(t) ==
    /\ IF AlreadyStopped
       THEN /\ pc' = [pc EXCEPT ![t] = "done"]
            /\ UNCHANGED << stopped, stop_event, transport, ui_queue, client,
                            result >>
       ELSE /\ stopped' = TRUE
            /\ stop_event' = TRUE
            /\ Disable(t, "start", ui_queue, transport, exc)
    /\ UNCHANGED << wp, status_notify, battery_notify, pending, last_sent,
                    last_payload, battery_pct, lock_holder, lock_waiters, exc,
                    ncancel, calls, writes >>
    /\ UNCHANGED aux

\* The call made by a task of its own.
Stop(t) == MayStart(t, NumSend + 1) /\ stop(t)

\* ---------------------------------------------------------------------- run
\* Line 106, then BleakClient.__aenter__ awaits connect().
RunStart ==
    /\ pc[RunTask] = "idle"
    /\ ui_queue' = queue_ui(ui_queue, RunTask, Event("message", "Connecting"))
    /\ transport' = [transport EXCEPT !.connect = "pending"]
    /\ pc' = [pc EXCEPT ![RunTask] = "connect"]
    /\ UNCHANGED << wp, client, status_notify, battery_notify, stop_event,
                    stopped, pending, last_sent, last_payload, battery_pct,
                    lock_holder, lock_waiters, exc, result, ncancel, calls,
                    writes >>
    /\ UNCHANGED aux

\* connect() returned: lines 109-110, then start_notify(STATUS) is awaited.
ConnectOk ==
    /\ pc[RunTask] = "connect"
    /\ client' = TRUE
    /\ ui_queue' = queue_ui(ui_queue, RunTask, Event("connected", "None"))
    /\ transport' = [transport EXCEPT !.connect = "ok", !.sub_status = @ + 1]
    /\ pc' = [pc EXCEPT ![RunTask] = "sub_status"]
    /\ UNCHANGED << wp, status_notify, battery_notify, stop_event, stopped,
                    pending, last_sent, last_payload, battery_pct, lock_holder,
                    lock_waiters, exc, result, ncancel, calls, writes >>
    /\ UNCHANGED aux

\* connect() raised and nothing handles it: the finally block, and out.
ConnectFailRaises ==
    /\ pc[RunTask] = "connect"
    /\ exc' = "error"
    /\ Disable(RunTask, "start", ui_queue,
               [transport EXCEPT !.connect = "failed"], "error")
    /\ UNCHANGED << wp, status_notify, battery_notify, stop_event, stopped,
                    pending, last_sent, last_payload, battery_pct, lock_holder,
                    lock_waiters, ncancel, calls, writes >>
    /\ UNCHANGED aux

\* connect() raised: lines 117-118, then the finally block.
ConnectFail ==
    /\ pc[RunTask] = "connect"
    /\ exc' = "none"
    /\ Disable(RunTask, "start",
               queue_ui(ui_queue, RunTask, Event("error", "Connection error")),
               [transport EXCEPT !.connect = "failed"], "none")
    /\ UNCHANGED << wp, status_notify, battery_notify, stop_event, stopped,
                    pending, last_sent, last_payload, battery_pct, lock_holder,
                    lock_waiters, ncancel, calls, writes >>
    /\ UNCHANGED aux

\* start_notify(STATUS) raised and the error leaves _enable_notifications:
\* the `async with` body is left and __aexit__ awaits disconnect().
SubStatusReturnFatal(ok) ==
    /\ pc[RunTask] = "sub_status"
    /\ status_notify' = (ok \/ status_notify)
    /\ ui_queue' = ui_queue
    /\ IF ok
       THEN /\ transport' = [transport EXCEPT !.sub_battery = @ + 1]
            /\ pc' = [pc EXCEPT ![RunTask] = "sub_battery"]
       ELSE /\ transport' = [transport EXCEPT !.disconnects = @ + 1]
            /\ pc' = [pc EXCEPT ![RunTask] = "disconnect"]
    /\ UNCHANGED << wp, client, battery_notify, stop_event, stopped, pending,
                    last_sent, last_payload, battery_pct, lock_holder,
                    lock_waiters, exc, result, ncancel, calls, writes >>
    /\ UNCHANGED aux

\* start_notify(STATUS) returned (ok) or raised: lines 127-129, then
\* start_notify(BATTERY) is awaited.
SubStatusReturn(ok) ==
    /\ pc[RunTask] = "sub_status"
    /\ status_notify' = (ok \/ status_notify)
    /\ ui_queue' = IF ok THEN ui_queue
                   ELSE queue_ui(ui_queue, RunTask, Event("warn", "Status notify failed"))
    /\ transport' = [transport EXCEPT !.sub_battery = @ + 1]
    /\ pc' = [pc EXCEPT ![RunTask] = "sub_battery"]
    /\ UNCHANGED << wp, client, battery_notify, stop_event, stopped, pending,
                    last_sent, last_payload, battery_pct, lock_holder,
                    lock_waiters, exc, result, ncancel, calls, writes >>
    /\ UNCHANGED aux

NoFlush == FALSE

\* The condition of _send_pending, line 222.
SendPendingNeeded == pending # None /\ client

\* start_notify(BATTERY) returned (ok) or raised: lines 132-134, then
\* _send_pending (lines 221-223) and, unless it waits in _write_pending,
\* _read_battery's read_gatt_char.
SubBatteryReturn(ok) ==
    /\ pc[RunTask] = "sub_battery"
    /\ battery_notify' = (ok \/ battery_notify)
    /\ ui_queue' = IF ok THEN ui_queue
                   ELSE queue_ui(ui_queue, RunTask, Event("warn", "Battery notify failed"))
    /\ IF SendPendingNeeded
       THEN WritePending(RunTask, pending)
       ELSE /\ pc' = [pc EXCEPT ![RunTask] = "read_battery"]
            /\ transport' = [transport EXCEPT !.reads = @ + 1]
            /\ UNCHANGED << pending, wp, writes, lock_holder, lock_waiters >>
    /\ UNCHANGED << client, status_notify, stop_event, stopped, last_sent,
                    last_payload, battery_pct, exc, result, ncancel, calls >>
    /\ UNCHANGED aux

\* `await self._stop_event.wait()` (line 114): returns at once when the
\* event is set, and then BleakClient.__aexit__ awaits disconnect().
AwaitStop(tr) ==
    IF stop_event
    THEN /\ pc' = [pc EXCEPT ![RunTask] = "disconnect"]
         /\ transport' = [tr EXCEPT !.disconnects = @ + 1]
    ELSE /\ pc' = [pc EXCEPT ![RunTask] = "wait"]
         /\ transport' = tr

\* read_gatt_char returned `data`: lines 180-182, then line 114.
ReadBatteryOk(data) ==
    /\ pc[RunTask] = "read_battery"
    /\ IF data # << >>
       THEN /\ battery_pct' = Some(data[1])
            /\ ui_queue' = queue_ui(ui_queue, RunTask, Event("battery", data[1]))
       ELSE UNCHANGED << battery_pct, ui_queue >>
    /\ AwaitStop(transport)
    /\ UNCHANGED << wp, client, status_notify, battery_notify, stop_event,
                    stopped, pending, last_sent, last_payload, lock_holder,
                    lock_waiters, exc, result, ncancel, calls, writes >>
    /\ UNCHANGED aux

\* read_gatt_char raised: lines 177-179, then line 114.
ReadBatteryFail ==
    /\ pc[RunTask] = "read_battery"
    /\ ui_queue' = queue_ui(ui_queue, RunTask,
                            Event("warn", "Initial battery read failed"))
    /\ AwaitStop(transport)
    /\ UNCHANGED << wp, client, status_notify, battery_notify, stop_event,
                    stopped, pending, last_sent, last_payload, battery_pct,
                    lock_holder, lock_waiters, exc, result, ncancel, calls,
                    writes >>
    /\ UNCHANGED aux

\* The stop event wakes run(): the `async with` block is left.
WaitReturn ==
    /\ pc[RunTask] = "wait"
    /\ stop_event
    /\ AwaitStop(transport)
    /\ UNCHANGED << wp, client, status_notify, battery_notify, stop_event,
                    stopped, pending, last_sent, last_payload, battery_pct,
                    lock_holder, lock_waiters, ui_queue, exc, result, ncancel,
                    calls, writes >>
    /\ UNCHANGED aux

\* disconnect() returned: the exception in flight (if any) goes on to the
\* except clauses and the finally block runs.
DisconnectOk ==
    /\ pc[RunTask] = "disconnect"
    /\ Disable(RunTask, "start", ui_queue, transport, exc)
    /\ UNCHANGED << wp, status_notify, battery_notify, stop_event, stopped,
                    pending, last_sent, last_payload, battery_pct, lock_holder,
                    lock_waiters, exc, ncancel, calls, writes >>
    /\ UNCHANGED aux

\* disconnect() raised: its exception replaces the one in flight and is
\* handled by lines 117-118; then the finally block runs.
DisconnectFail ==
    /\ pc[RunTask] = "disconnect"
    /\ exc' = "none"
    /\ Disable(RunTask, "start",
               queue_ui(ui_queue, RunTask, Event("error", "Connection error")),
               transport, "none")
    /\ UNCHANGED << wp, status_notify, battery_notify, stop_event, stopped,
                    pending, last_sent, last_payload, battery_pct, lock_holder,
                    lock_waiters, ncancel, calls, writes >>
    /\ UNCHANGED aux

\* ------------------------------------------------------------- cancellation
\* task.cancel() on the run() task: CancelledError is raised at the await
\* the task is suspended in.  It is not an Exception, so no `except
\* Exception` clause of the session catches it.
CanCancel == ncancel < MaxCancels /\ result = "running"

\* Raised inside BleakClient.__aenter__: __aexit__ is not run; lines
\* 115-116 re-raise and the finally block runs with no client stored.
CancelConnect ==
    /\ CanCancel
    /\ pc[RunTask] = "connect"
    /\ ncancel' = ncancel + 1
    /\ exc' = "cancel"
    /\ Disable(RunTask, "start", ui_queue,
               [transport EXCEPT !.connect = "cancelled"], "cancel")
    /\ UNCHANGED << wp, status_notify, battery_notify, stop_event, stopped,
                    pending, last_sent, last_payload, battery_pct, lock_holder,
                    lock_waiters, calls, writes >>
    /\ UNCHANGED aux

\* Raised at an await of the `async with` body outside _write_pending
\* (lines 111, 113, 114): the body is left and __aexit__ awaits disconnect().
CancelBody ==
    /\ CanCancel
    /\ pc[RunTask] \in {"sub_status", "sub_battery", "read_battery", "wait"}
    /\ ncancel' = ncancel + 1
    /\ exc' = "cancel"
    /\ pc' = [pc EXCEPT ![RunTask] = "disconnect"]
    /\ transport' = [transport EXCEPT !.disconnects = @ + 1]
    /\ UNCHANGED << wp, client, status_notify, battery_notify, stop_event,
                    stopped, pending, last_sent, last_payload, battery_pct,
                    lock_holder, lock_waiters, ui_queue, result, calls,
                    writes >>
    /\ UNCHANGED aux

\* Raised while run() queues for the write lock in _send_pending: it
\* leaves the queue.
CancelLockWait ==
    /\ CanCancel
    /\ pc[RunTask] = "lock_wait"
    /\ ncancel' = ncancel + 1
    /\ exc' = "cancel"
    /\ lock_waiters' = SelectSeq(lock_waiters, LAMBDA w : w # RunTask)
    /\ pc' = [pc EXCEPT ![RunTask] = "disconnect"]
    /\ transport' = [transport EXCEPT !.disconnects = @ + 1]
    /\ UNCHANGED << wp, client, status_notify, battery_notify, stop_event,
                    stopped, pending, last_sent, last_payload, battery_pct,
                    lock_holder, ui_queue, result, calls, writes >>
    /\ UNCHANGED aux

\* Raised while run() holds the write lock (woken with it, or awaiting
\* write_gatt_char, whose payload was already taken from the slot): the
\* lock is released on the way out.
CancelDrain ==
    /\ CanCancel
    /\ pc[RunTask] \in {"locked", "write"}
    /\ ncancel' = ncancel + 1
    /\ exc' = "cancel"
    /\ lock_holder' = HolderAfterRelease
    /\ lock_waiters' = WaitersAfterRelease
    /\ pc' = Woken([pc EXCEPT ![RunTask] = "disconnect"])
    /\ transport' = [transport EXCEPT !.disconnects = @ + 1]
    /\ UNCHANGED << wp, client, status_notify, battery_notify, stop_event,
                    stopped, pending, last_sent, last_payload, battery_pct,
                    ui_queue, result, calls, writes >>
    /\ UNCHANGED aux

\* Raised inside BleakClient.__aexit__: lines 115-116 re-raise and the
\* finally block runs.
CancelDisconnect ==
    /\ CanCancel
    /\ pc[RunTask] = "disconnect"
    /\ ncancel' = ncancel + 1
    /\ exc' = "cancel"
    /\ Disable(RunTask, "start", ui_queue, transport, "cancel")
    /\ UNCHANGED << wp, status_notify, battery_notify, stop_event, stopped,
                    pending, last_sent, last_payload, battery_pct, lock_holder,
                    lock_waiters, calls, writes >>
    /\ UNCHANGED aux

\* Raised at a stop_notify await of the finally block (line 120): the inner
\* finally (line 146 or 153) clears that flag, and the error leaves
\* _disable_notifications and run(): lines 121-122 are not reached.
CancelTeardown ==
    /\ CanCancel
    /\ pc[RunTask] \in {"unsub_status", "unsub_battery"}
    /\ ncancel' = ncancel + 1
    /\ exc' = "cancel"
    /\ status_notify' = (status_notify /\ pc[RunTask] # "unsub_status")
    /\ battery_notify' = (battery_notify /\ pc[RunTask] # "unsub_battery")
    /\ pc' = [pc EXCEPT ![RunTask] = "done"]
    /\ result' = "cancelled"
    /\ UNCHANGED << wp, client, stop_event, stopped, pending, last_sent,
                    last_payload, battery_pct, lock_holder, lock_waiters,
                    ui_queue, transport, calls, writes >>
    /\ UNCHANGED aux

\* ---------------------------------------------------------- request_battery
NeverDeferred == FALSE

\* Line 216.
Deferred == ~client

\* request_battery up to its first await (read_gatt_char in _read_battery)
\* or its return.
RequestBattery(t) ==
    /\ MayStart(t, NumSend + NumStop + 1)
    /\ IF stopped
       THEN /\ pc' = [pc EXCEPT ![t] = "done"]
            /\ UNCHANGED << ui_queue, transport >>
       ELSE IF Deferred
       THEN /\ ui_queue' = queue_ui(ui_queue, t,
                   Event("message", "Battery read queued; waiting for connection"))
            /\ pc' = [pc EXCEPT ![t] = "done"]
            /\ UNCHANGED transport
       ELSE /\ pc' = [pc EXCEPT ![t] = "read_battery"]
            /\ transport' = [transport EXCEPT !.reads = @ + 1]
            /\ UNCHANGED ui_queue
    /\ UNCHANGED << wp, client, status_notify, battery_notify, stop_event,
                    stopped, pending, last_sent, last_payload, battery_pct,
                    lock_holder, lock_waiters, exc, result, ncancel, calls,
                    writes >>
    /\ UNCHANGED aux

\* read_gatt_char returned `data` to request_battery: lines 180-182.
RequestReadOk(t, data) ==
    /\ t \in Requesters
    /\ pc[t] = "read_battery"
    /\ IF data # << >>
       THEN /\ battery_pct' = Some(data[1])
            /\ ui_queue' = queue_ui(ui_queue, t, Event("battery", data[1]))
       ELSE UNCHANGED << battery_pct, ui_queue >>
    /\ pc' = [pc EXCEPT ![t] = "done"]
    /\ UNCHANGED << wp, client, status_notify, battery_notify, stop_event,
                    stopped, pending, last_sent, last_payload, lock_holder,
                    lock_waiters, exc, result, transport, ncancel, calls,
                    writes >>
    /\ UNCHANGED aux

\* read_gatt_char raised in request_battery: lines 177-179.
RequestReadFail(t) ==
    /\ t \in Requesters
    /\ pc[t] = "read_battery"
    /\ ui_queue' = queue_ui(ui_queue, t,
                            Event("warn", "Initial battery read failed"))
    /\ pc' = [pc EXCEPT ![t] = "done"]
    /\ UNCHANGED << wp, client, status_notify, battery_notify, stop_event,
                    stopped, pending, last_sent, last_payload, battery_pct,
                    lock_holder, lock_waiters, exc, result, transport, ncancel,
                    calls, writes >>
    /\ UNCHANGED aux

\* ---------------------------------------------------- notification callbacks
\* The byte strings a notification carries: none, one byte, two bytes, a
\* status frame.
NotifyData == { << >>, << 42 >>, << 171, 5 >>, << 1, 0, 1, 0, 0, 1, 0, 0 >> }

\* The transport calls a callback from the start_notify call that registers
\* it on, for as long as the subscription lasts.
StatusLive == status_notify \/ pc[RunTask] = "sub_status"
BatteryLive == battery_notify \/ pc[RunTask] = "sub_battery"

\* _status_handler, lines 155-160.
StatusNotification(data) ==
    /\ StatusLive
    /\ nnotify < MaxNotify
    /\ nnotify' = nnotify + 1
    /\ last_status' = decode_status_payload(data)
    /\ last_status_hex' = Hex(data)
    /\ ui_queue' = queue_ui(ui_queue, StatusCallback, Event("status", "None"))
    /\ UNCHANGED << pc, wp, client, status_notify, battery_notify, stop_event,
                    stopped, pending, last_sent, last_payload, battery_pct,
                    lock_holder, lock_waiters, exc, result, transport, ncancel,
                    calls, writes >>
    /\ UNCHANGED << channel, codec, unsub_raised, front >>

\* Lines 165-167: decoded.get("battery_pct"), else the first byte if any.
BatteryOf(data) ==
    LET decoded == decode_status_payload(data) IN
    IF "battery_pct" \in DOMAIN decoded THEN Some(decoded.battery_pct)
    ELSE IF data # << >> THEN Some(data[1])
    ELSE None

\* _battery_handler storing what it decoded as the last status too.
BatteryNotificationStoresStatus(data) ==
    /\ BatteryLive
    /\ nnotify < MaxNotify
    /\ nnotify' = nnotify + 1
    /\ last_status' = decode_status_payload(data)
    /\ last_status_hex' = Hex(data)
    /\ LET battery == BatteryOf(data) IN
       IF battery # None
       THEN /\ battery_pct' = battery
            /\ ui_queue' = queue_ui(ui_queue, BatteryCallback,
                                    Event("battery", battery[1]))
       ELSE /\ ui_queue' = queue_ui(ui_queue, BatteryCallback,
                                    Event("status", "None"))
            /\ UNCHANGED battery_pct
    /\ UNCHANGED << pc, wp, client, status_notify, battery_notify, stop_event,
                    stopped, pending, last_sent, last_payload, lock_holder,
                    lock_waiters, exc, result, transport, ncancel, calls,
                    writes >>
    /\ UNCHANGED << channel, codec, unsub_raised, front >>

\* _battery_handler, lines 162-172.
BatteryNotification(data) ==
    /\ BatteryLive
    /\ nnotify < MaxNotify
    /\ nnotify' = nnotify + 1
    /\ LET battery == BatteryOf(data) IN
       IF battery # None
       THEN /\ battery_pct' = battery
            /\ ui_queue' = queue_ui(ui_queue, BatteryCallback,
                                    Event("battery", battery[1]))
       ELSE /\ ui_queue' = queue_ui(ui_queue, BatteryCallback,
                                    Event("status", "None"))
            /\ UNCHANGED battery_pct
    /\ UNCHANGED << pc, wp, client, status_notify, battery_notify, stop_event,
                    stopped, pending, last_sent, last_payload, lock_holder,
                    lock_waiters, exc, result, transport, ncancel, calls,
                    writes, last_status, last_status_hex >>
    /\ UNCHANGED << channel, codec, unsub_raised, front >>

\* --------------------------------------------------------------- event queue
\* BleController is handed its queue by its caller (line 90); the sizes a
\* queue may have: unbounded, as PygameApp builds it, or bounded.
QueueSizes == {0, MaxQueue}

\* The items put on the queue here.
ChannelItems ==
    { Event("connected", "None"), Event("status", "None"),
      Event("warn", "Status notify failed") }

Shutdown == Event("shutdown", "None")

\* asyncio.Queue.full().
Full(q) == maxsize > 0 /\ Len(q) >= maxsize

\* A put that makes room by discarding the oldest item.
put_dropping_oldest(q, item) ==
    IF Full(q) THEN Append(Tail(q), item) ELSE Append(q, item)

\* put_nowait inside _queue_ui's try: QueueFull is raised and swallowed
\* when the queue is full, else the item is appended.
put_nowait(q, item) == IF Full(q) THEN q ELSE Append(q, item)

\* _queue_ui(item), lines 232-236.  `offered` notes the call and whether the
\* queue took the item.
QueueUi(item) ==
    /\ Len(offered) < MaxPush
    /\ chan' = put_nowait(chan, item)
    /\ offered' = Append(offered, [item |-> item, kept |-> ~Full(chan)])
    /\ UNCHANGED << maxsize, consumer, delivered >>
    /\ UNCHANGED << sessionvars, codec >>

\* PygameApp.run, line 281: the sentinel is put once, with put_nowait; on a
\* full queue QueueFull is raised to the caller and nothing is put.
PutShutdown ==
    /\ consumer = "get"
    /\ \A i \in 1 .. Len(chan) : chan[i] # Shutdown
    /\ ~Full(chan)
    /\ chan' = Append(chan, Shutdown)
    /\ UNCHANGED << maxsize, consumer, delivered, offered >>
    /\ UNCHANGED << sessionvars, codec >>

\* ui_consumer, lines 388-393: get() returns the oldest item; the sentinel
\* ends the loop, any other item goes to _handle_ui_message.
ConsumerGet ==
    /\ consumer = "get"
    /\ chan # << >>
    /\ chan' = Tail(chan)
    /\ IF Head(chan) = Shutdown
       THEN consumer' = "done" /\ UNCHANGED delivered
       ELSE delivered' = Append(delivered, Head(chan)) /\ UNCHANGED consumer
    /\ UNCHANGED << maxsize, offered >>
    /\ UNCHANGED << sessionvars, codec >>

\* -------------------------------------------------------- the codec, applied
\* The ControlState values build_control_payload is applied to.
CodecStates ==
    [mode : {-1, 0, 1, 2, 255, 256, 513}, throttle : {-2, -1, 0, 1, 3},
     steering : {-2, -1, 0, 1, 3}, lights : BOOLEAN, turbo : BOOLEAN,
     donut : BOOLEAN]

\* The byte strings decode_status_payload is applied to: of the lengths 0,
\* 1, 2, 7, 8, 9 and 255, filled with one byte value or with a ramp.
CodecLengths == {0, 1, 2, 7, 8, 9, 255}

CodecData ==
    { [i \in 1 .. n |-> b] : n \in CodecLengths, b \in {0, 1, 171, 255} }
    \cup { [i \in 1 .. n |-> (i * 7) % 256] : n \in CodecLengths }

\* build_control_payload(state).
EncodeState ==
    /\ cpayload = None
    /\ cpayload' = Some(build_control_payload(cstate))
    /\ UNCHANGED << cstate, cframe, cdata, creading, tpayload >>
    /\ UNCHANGED << sessionvars, channel >>

\* decode_status_payload(build_control_payload(state)).
DecodeFrame ==
    /\ cpayload # None
    /\ cframe = EmptyDict
    /\ cframe' = decode_status_payload(cpayload[1])
    /\ UNCHANGED << cstate, cpayload, cdata, creading, tpayload >>
    /\ UNCHANGED << sessionvars, channel >>

\* decode_status_payload(data).
DecodeData ==
    /\ creading = EmptyDict
    /\ creading' = decode_status_payload(cdata)
    /\ UNCHANGED << cstate, cpayload, cframe, cdata, tpayload >>
    /\ UNCHANGED << sessionvars, channel >>

\* build_control_payload of src/test.py applied to the same values.
EncodeTool ==
    /\ tpayload = None
    /\ tpayload' = Some(test_build_control_payload(
                         cstate.throttle, cstate.steering, cstate.lights,
                         cstate.turbo, cstate.donut, cstate.mode))
    /\ UNCHANGED << cstate, cpayload, cframe, cdata, creading >>
    /\ UNCHANGED << sessionvars, channel >>

\* ---------------------------------------------------------------- front end
\* The keys pressed and released: the two throttle keys.
ThrottleKeys == {"w", "s"}

\* The value _update_throttle_from_keys computes, lines 335-342.
ThrottleFromKeys(down, lastkey) ==
    IF "w" \in down /\ "s" \in down
    THEN (IF lastkey = "w" THEN 1 ELSE -1)
    ELSE IF "w" \in down THEN 1
    ELSE IF "s" \in down THEN -1
    ELSE 0

\* loop.create_task: the tasks of a kind are made in the order of their
\* numbers.
Uncreated(S) == { t \in S : \A i \in DOMAIN created : created[i] # t }

NextOf(S) == CHOOSE t \in Uncreated(S) : \A u \in Uncreated(S) : t <= u

\* The loop starts the tasks made in the order they were made in: a task
\* takes its first step when all those made before it have taken theirs.
CanStart(t) ==
    /\ pc[t] = "idle"
    /\ \E i \in DOMAIN created :
          /\ created[i] = t
          /\ \A j \in 1 .. (i - 1) : pc[created[j]] # "idle"

\* Lines 343-347 and the create_task of the caller (309, 325): when the
\* value changes it is stored, the payload is built from the state at once
\* and a task is made for the send_control call, which runs later.
UpdateThrottle(new) ==
    IF new # state.throttle
    THEN LET s == [state EXCEPT !.throttle = new]
             t == NextOf(Submitters)
         IN /\ Uncreated(Submitters) # {}
            /\ state' = s
            /\ created' = Append(created, t)
            /\ arg' = [arg EXCEPT ![t] = Some(build_control_payload(s))]
    ELSE UNCHANGED << state, created, arg >>

\* handle_keydown for a throttle key (lines 301-309), called by mainloop
\* between two awaits.  The key was up: set_repeat(0) (line 271) gives no
\* second KEYDOWN while it is held.
KeyDown(k) ==
    /\ running
    /\ k \notin throttle_keys_down
    /\ throttle_keys_down' = throttle_keys_down \cup {k}
    /\ last_throttle_key' = k
    /\ UpdateThrottle(ThrottleFromKeys(throttle_keys_down \cup {k}, k))
    /\ UNCHANGED << running, shut_connected >>
    /\ UNCHANGED << pc, core, beyond >>

\* handle_keyup for a throttle key that is down (lines 320-325); mainloop
\* handles events only while the running flag is set (line 288).
KeyUp(k) ==
    /\ running
    /\ k \in throttle_keys_down
    /\ throttle_keys_down' = throttle_keys_down \ {k}
    /\ UpdateThrottle(ThrottleFromKeys(throttle_keys_down \ {k},
                                       last_throttle_key))
    /\ UNCHANGED << running, last_throttle_key, shut_connected >>
    /\ UNCHANGED << pc, core, beyond >>

\* A QUIT event (lines 290-291): a task is made for shutdown().
QuitEvent ==
    /\ running
    /\ Uncreated(Quitters) # {}
    /\ created' = Append(created, NextOf(Quitters))
    /\ UNCHANGED << running, state, throttle_keys_down, last_throttle_key,
                    shut_connected, arg >>
    /\ UNCHANGED << pc, core, beyond >>

\* shutdown, lines 418-425: nothing for a call that finds the flag cleared;
\* else the flag and the keys are cleared, throttle and steering are set to
\* 0 and the payload of line 426 is built.  It goes on to send_control and
\* stop() with no await in between: the steps ShutdownSend and
\* ShutdownStop follow before any other task runs (see Busy).
shutdown(t) ==
    /\ t \in Quitters
    /\ CanStart(t)
    /\ IF ~running
       THEN /\ pc' = [pc EXCEPT ![t] = "done"]
            /\ UNCHANGED front
       ELSE LET s == [state EXCEPT !.throttle = 0, !.steering = 0] IN
            /\ running' = FALSE
            /\ throttle_keys_down' = {}
            /\ state' = s
            /\ arg' = [arg EXCEPT ![t] = Some(build_control_payload(s))]
            /\ shut_connected' =
                   IF client THEN shut_connected \cup {t} ELSE shut_connected
            /\ pc' = [pc EXCEPT ![t] = "send"]
            /\ UNCHANGED << last_throttle_key, created >>
    /\ UNCHANGED << core, beyond >>

\* Line 426: send_control with the payload built.
ShutdownSend(t) ==
    /\ t \in Quitters
    /\ pc[t] = "send"
    /\ send_control(t, arg[t][1])

\* Line 427, when send_control has returned.
ShutdownStop(t) ==
    /\ t \in Quitters
    /\ pc[t] = "stop"
    /\ stop(t)

\* A shutdown call is between two of its statements that no await
\* separates: no other task, callback or event handler runs now.
Busy == \E t \in Quitters : pc[t] \in {"send", "stop"}

\* ------------------------------------------------------------ specification
Drainers == {RunTask} \cup Submitters \cup LateSubmitters \cup Quitters
Unsubscribers == {RunTask} \cup Stoppers \cup Quitters

Next ==
    \/ RunStart
    \/ ConnectOk
    \/ ConnectFail
    \/ \E ok \in BOOLEAN : SubStatusReturn(ok)
    \/ \E ok \in BOOLEAN : SubBatteryReturn(ok)
    \/ \E data \in BatteryData : ReadBatteryOk(data)
    \/ ReadBatteryFail
    \/ WaitReturn
    \/ DisconnectOk
    \/ DisconnectFail
    \/ \E t \in Drainers : DrainResume(t)
    \/ \E t \in Drainers : WriteOk(t)
    \/ \E t \in Drainers : WriteFail(t)
    \/ \E t \in Unsubscribers : UnsubStatusReturn(t)
    \/ \E t \in Unsubscribers : UnsubBatteryReturn(t)
    \/ \E t \in Submitters, payload \in PayloadChoices : SendControl(t, payload)
    \/ \E t \in Stoppers : Stop(t)
    \/ CancelConnect
    \/ CancelBody
    \/ CancelLockWait
    \/ CancelDrain
    \/ CancelDisconnect
    \/ CancelTeardown

Spec == Init /\ [][Next]_vars

\* The session with battery requests: run(), one send_control call, one
\* stop() call and the request_battery tasks.
OneSubmitter == { t \in Submitters : t - 1 \notin Submitters }
OneStopper == { t \in Stoppers : t - 1 \notin Stoppers }

NextRequest ==
    \/ RunStart
    \/ ConnectOk
    \/ ConnectFail
    \/ \E ok \in BOOLEAN : SubStatusReturn(ok)
    \/ \E ok \in BOOLEAN : SubBatteryReturn(ok)
    \/ \E data \in BatteryData : ReadBatteryOk(data)
    \/ ReadBatteryFail
    \/ WaitReturn
    \/ DisconnectOk
    \/ DisconnectFail
    \/ \E t \in {RunTask} \cup OneSubmitter : WriteOk(t)
    \/ \E t \in {RunTask} \cup OneSubmitter : WriteFail(t)
    \/ \E t \in {RunTask} \cup OneStopper : UnsubStatusReturn(t)
    \/ \E t \in {RunTask} \cup OneStopper : UnsubBatteryReturn(t)
    \/ \E t \in OneSubmitter, payload \in PayloadChoices : SendControl(t, payload)
    \/ \E t \in OneStopper : Stop(t)
    \/ \E t \in Requesters : RequestBattery(t)
    \/ \E t \in Requesters, data \in BatteryData : RequestReadOk(t, data)
    \/ \E t \in Requesters : RequestReadFail(t)

SpecRequest == Init /\ [][NextRequest]_vars

\* The event queue on its own: _queue_ui calls, the consumer and the
\* shutdown sentinel, for an unbounded and a bounded queue.
InitChannel ==
    /\ InitSession
    /\ maxsize \in QueueSizes
    /\ cstate = DefaultState
    /\ cdata = << >>

NextChannel ==
    \/ \E item \in ChannelItems : QueueUi(item)
    \/ PutShutdown
    \/ ConsumerGet

SpecChannel == InitChannel /\ [][NextChannel]_vars

\* The packet codec on its own, applied to every input of CodecStates and
\* CodecData.
InitCodec ==
    /\ InitSession
    /\ maxsize = 0
    /\ cstate \in CodecStates
    /\ cdata \in CodecData

NextCodec ==
    \/ EncodeState
    \/ DecodeFrame
    \/ DecodeData
    \/ EncodeTool

SpecCodec == InitCodec /\ [][NextCodec]_vars

\* The write path under more send_control calls: run() up to its wait for
\* the stop event and the send_control tasks, with no stop() and no
\* cancellation.
NextIntent ==
    \/ RunStart
    \/ ConnectOk
    \/ \E ok \in BOOLEAN : SubStatusReturn(ok)
    \/ \E ok \in BOOLEAN : SubBatteryReturn(ok)
    \/ \E data \in BatteryData : ReadBatteryOk(data)
    \/ ReadBatteryFail
    \/ \E t \in Drainers : DrainResume(t)
    \/ \E t \in Drainers : WriteOk(t)
    \/ \E t \in Drainers : WriteFail(t)
    \/ \E t \in Senders, payload \in PayloadChoices : SendControl(t, payload)

SpecIntent == Init /\ [][NextIntent]_vars

\* The same session with the notifications the transport delivers.
NextNotify ==
    \/ RunStart
    \/ ConnectOk
    \/ ConnectFail
    \/ \E ok \in BOOLEAN : SubStatusReturn(ok)
    \/ \E ok \in BOOLEAN : SubBatteryReturn(ok)
    \/ \E data \in BatteryData : ReadBatteryOk(data)
    \/ ReadBatteryFail
    \/ WaitReturn
    \/ DisconnectOk
    \/ DisconnectFail
    \/ \E t \in {RunTask} \cup OneSubmitter : WriteOk(t)
    \/ \E t \in {RunTask} \cup OneSubmitter : WriteFail(t)
    \/ \E t \in {RunTask} \cup OneStopper : UnsubStatusReturn(t)
    \/ \E t \in {RunTask} \cup OneStopper : UnsubBatteryReturn(t)
    \/ \E t \in OneSubmitter, payload \in PayloadChoices : SendControl(t, payload)
    \/ \E t \in OneStopper : Stop(t)
    \/ \E data \in NotifyData : StatusNotification(data)
    \/ \E data \in NotifyData : BatteryNotification(data)

SpecNotify == Init /\ [][NextNotify]_vars

\* The teardown with the outcome of every unsubscribe call told apart:
\* run(), the stop() calls and no cancellation.
NextTeardown ==
    \/ RunStart
    \/ ConnectOk
    \/ ConnectFail
    \/ \E ok \in BOOLEAN : SubStatusReturn(ok)
    \/ \E ok \in BOOLEAN : SubBatteryReturn(ok)
    \/ \E data \in BatteryData : ReadBatteryOk(data)
    \/ ReadBatteryFail
    \/ WaitReturn
    \/ DisconnectOk
    \/ DisconnectFail
    \/ \E t \in Stoppers : Stop(t)
    \/ \E t \in Unsubscribers, ok \in BOOLEAN : StopNotifyStatus(t, ok)
    \/ \E t \in Unsubscribers, ok \in BOOLEAN : StopNotifyBattery(t, ok)

SpecTeardown == Init /\ [][NextTeardown]_vars

\* The front end driving the session: key events and QUIT events, the
\* send_control tasks and shutdown calls they make, and run(); no
\* cancellation.
NextShutdown ==
    \/ ~Busy /\ RunStart
    \/ ~Busy /\ ConnectOk
    \/ ~Busy /\ ConnectFail
    \/ ~Busy /\ \E ok \in BOOLEAN : SubStatusReturn(ok)
    \/ ~Busy /\ \E ok \in BOOLEAN : SubBatteryReturn(ok)
    \/ ~Busy /\ \E data \in BatteryData : ReadBatteryOk(data)
    \/ ~Busy /\ ReadBatteryFail
    \/ ~Busy /\ WaitReturn
    \/ ~Busy /\ DisconnectOk
    \/ ~Busy /\ DisconnectFail
    \/ ~Busy /\ \E t \in Drainers : DrainResume(t)
    \/ ~Busy /\ \E t \in Drainers : WriteOk(t)
    \/ ~Busy /\ \E t \in Drainers : WriteFail(t)
    \/ ~Busy /\ \E t \in Unsubscribers : UnsubStatusReturn(t)
    \/ ~Busy /\ \E t \in Unsubscribers : UnsubBatteryReturn(t)
    \/ ~Busy /\ \E t \in Submitters : CanStart(t) /\ SendControl(t, arg[t][1])
    \/ ~Busy /\ \E k \in ThrottleKeys : KeyDown(k)
    \/ ~Busy /\ \E k \in ThrottleKeys : KeyUp(k)
    \/ ~Busy /\ QuitEvent
    \/ ~Busy /\ \E t \in Quitters : shutdown(t)
    \/ \E t \in Quitters : ShutdownSend(t)
    \/ \E t \in Quitters : ShutdownStop(t)

SpecShutdown == Init /\ [][NextShutdown]_vars

\* The payloads the throttle keys can give.
KeyPayloads ==
    { build_control_payload([DefaultState EXCEPT !.throttle = v]) :
          v \in {-1, 0, 1} }

TypeOK ==
    /\ pc \in [Procs -> {"idle", "connect", "sub_status", "sub_battery",
                         "lock_wait", "locked", "write", "read_battery", "wait",
                         "disconnect", "unsub_status", "unsub_battery", "done",
                         "send", "stop"}]
    /\ client \in BOOLEAN /\ status_notify \in BOOLEAN
    /\ battery_notify \in BOOLEAN /\ stop_event \in BOOLEAN
    /\ stopped \in BOOLEAN
    /\ pending \in {None} \cup {Some(p) : p \in Payloads \cup KeyPayloads}
    /\ last_sent \in {None} \cup {Some(p) : p \in Payloads \cup KeyPayloads}
    /\ state.throttle \in {-1, 0, 1}
    /\ throttle_keys_down \subseteq ThrottleKeys
    /\ Len(created) <= NumSend + NumQuit
    /\ lock_holder \in Drainers \cup {NoProc}
    /\ exc \in {"none", "cancel"}
    /\ result \in {"running", "returned", "cancelled", "raised"}
    /\ Len(writes) <= Len(calls)

\* ---------------------------------------------------------------- properties
Last(seq) == seq[Len(seq)]

\* The kinds of the items task t has put on the queue, in order.
Kinds(t) == [i \in 1 .. Len(ui_queue[t]) |-> ui_queue[t][i].kind]

CountKind(t, kind) ==
    Len(SelectSeq(ui_queue[t], LAMBDA e : e.kind = kind))

\* Tasks awaiting write_gatt_char.
InFlight == { t \in Drainers : pc[t] = "write" }

\* This step is the call of send_control by task t (its run up to the first
\* await or its return), resp. the call of stop by task t.
SubmitStep(t) == pc[t] = "idle" /\ pc'[t] # "idle"
StopStep(t) == pc[t] = "idle" /\ pc'[t] # "idle"

\* The calls made (and not dropped) before any transport write had started,
\* and those made after one had.
EarlyCalls == SelectSeq(calls, LAMBDA c : c.nwrites = 0)
LateCalls == SelectSeq(calls, LAMBDA c : c.nwrites > 0)

\* run() has gone through _send_pending and is inside the `async with` body.
PastFlush == pc[RunTask] \in {"read_battery", "wait"}

\* C1 (coalescing).  When two or more send_control calls were made before
\* any transport write had started, the last two with different payloads P1
\* then P2: the first write carries P2, the payload of the last of these
\* calls; at most one write is made for all of them (every further write
\* answers a later call and carries that call's payload, so P1 is written
\* only if it is submitted again); and once run() is through its
\* connect-time flush that one write has been made.
C1_Coalescing ==
    LET early == EarlyCalls
        n == Len(early)
    IN  (n >= 2 /\ early[n - 1].payload # early[n].payload) =>
            /\ Len(writes) >= 1 => writes[1] = early[n].payload
            /\ Len(writes) <= 1 + Len(LateCalls)
            /\ \A i \in 2 .. Len(writes) :
                   \E j \in 1 .. Len(LateCalls) :
                       LateCalls[j].payload = writes[i]
            /\ PastFlush => Len(writes) >= 1

\* Two calls with different payloads before the connection, nothing after:
\* the flush wrote the second payload, once.
C1_Witness ==
    /\ Len(calls) = 2
    /\ ~calls[1].client /\ ~calls[2].client
    /\ calls[1].payload # calls[2].payload
    /\ pc[RunTask] = "wait"
    /\ writes = << calls[2].payload >>
    /\ last_sent = Some(calls[2].payload)
    /\ \A t \in Submitters : pc[t] = "done"

\* C2 (idempotent suppression).  A send_control(P) call made while the
\* session is not stopped, P is the last payload transmitted and the
\* pending slot is empty returns at once: it starts no write, leaves the
\* slot empty and the last-sent payload as it is, and puts no event.  Every
\* such call does, so repeating it adds no write.
C2_IdempotentSuppression ==
    [][\A t \in Submitters :
         ( /\ SubmitStep(t)
           /\ ~stopped
           /\ pending = None
           /\ last_sent = Some(Last(calls').payload) ) =>
         ( /\ pc'[t] = "done"
           /\ pending' = None
           /\ UNCHANGED << last_sent, last_payload, writes, ui_queue, wp,
                           lock_holder, lock_waiters, transport >> )]_vars

\* A payload was written and a later call repeated it with the slot empty:
\* still one write.
C2_Witness ==
    /\ Len(calls) = 2
    /\ calls[1].payload = calls[2].payload
    /\ calls[2].nwrites = 1
    /\ calls[2].client
    /\ Len(writes) = 1
    /\ last_sent = Some(calls[2].payload)
    /\ pending = None
    /\ \A t \in Submitters : pc[t] = "done"
    /\ ~stopped

\* C3 (drain mutual exclusion).  At most one write_gatt_char call on the
\* control characteristic is in flight, whatever the interleaving of
\* send_control calls and the connect-time flush of run().
C3_OneWriteInFlight == Cardinality(InFlight) <= 1

\* A send_control task is writing while the connect-time flush of run()
\* and another send_control task queue for the lock.
C3_Witness ==
    /\ pc[RunTask] = "lock_wait"
    /\ \E t, u \in Submitters : pc[t] = "write" /\ pc[u] = "lock_wait"

\* The Disconnected events put so far (only run() puts them).
Disconnects == CountKind(RunTask, "disconnected")

\* C4 (teardown always runs).  On every exit path of run() -- the connect
\* fails, the transport raises after connecting, stop() is signalled, the
\* task is cancelled -- with every transport call returning, a Disconnected
\* event is emitted before run() ends, and from then on the client handle is
\* cleared and neither subscription is marked active.
C4_TeardownAlwaysRuns ==
    /\ result # "running" => Disconnects >= 1
    /\ Disconnects >= 1 => (~client /\ ~status_notify /\ ~battery_notify)

\* C5 (teardown runs exactly once).  When run() has ended, exactly one
\* Disconnected event has been put, on every exit path and for every
\* interleaving with stop(); never more than one is put.
C5_ExactlyOneDisconnected ==
    /\ Disconnects <= 1
    /\ \A t \in Procs \ {RunTask} : CountKind(t, "disconnected") = 0
    /\ result # "running" => Disconnects = 1

\* The state of the session apart from the tasks' positions.
session == << wp, client, status_notify, battery_notify, stop_event, stopped,
              pending, last_sent, last_payload, battery_pct, lock_holder,
              lock_waiters, ui_queue, exc, result, transport, calls, writes >>

\* C6 (stop is idempotent).  The first stop() call marks the session
\* stopped, sets the stop event and starts tearing the notifications down:
\* with a client stored it issues the unsubscribe of the first subscription
\* marked active, and without one it returns; when an unsubscribe returns
\* it clears that flag and goes on to the next.  Every later stop() call
\* returns at once: no session state changes, no unsubscribe is issued, no
\* event is put.
C6_StopIdempotent ==
    /\ [][\A t \in Stoppers : StopStep(t) =>
            IF stopped
            THEN /\ pc' = [pc EXCEPT ![t] = "done"]
                 /\ UNCHANGED session
            ELSE /\ stopped' /\ stop_event'
                 /\ UNCHANGED << ui_queue, client, status_notify, battery_notify >>
                 /\ (client /\ status_notify) =>
                        /\ pc'[t] = "unsub_status"
                        /\ transport'.unsub_status = transport.unsub_status + 1
                 /\ (client /\ ~status_notify /\ battery_notify) =>
                        /\ pc'[t] = "unsub_battery"
                        /\ transport'.unsub_battery = transport.unsub_battery + 1
                 /\ (~client \/ (~status_notify /\ ~battery_notify)) =>
                        /\ pc'[t] = "done"
                        /\ transport' = transport]_vars
    /\ [][\A t \in Stoppers :
            /\ (pc[t] = "unsub_status" /\ pc'[t] # "unsub_status") =>
                   /\ ~status_notify'
                   /\ pc'[t] = IF battery_notify THEN "unsub_battery" ELSE "done"
            /\ (pc[t] = "unsub_battery" /\ pc'[t] # "unsub_battery") =>
                   /\ ~battery_notify'
                   /\ pc'[t] = "done"]_vars

\* A second stop() call has returned while the first still awaits its
\* unsubscribe.
C6_Witness ==
    \E t, u \in Stoppers :
        /\ pc[t] \in {"unsub_status", "unsub_battery"}
        /\ pc[u] = "done"
        /\ transport.unsub_status + transport.unsub_battery = 1

\* C7 (a submit after stop is dropped).  A send_control call made once
\* stop() has been called changes neither the pending slot nor the last-sent
\* payload, starts no write and puts no event, whatever its payload and
\* whether or not the client is still stored.
C7_SubmitAfterStopDropped ==
    [][\A t \in Submitters : (SubmitStep(t) /\ stopped) =>
         /\ pc' = [pc EXCEPT ![t] = "done"]
         /\ UNCHANGED session]_vars

\* A call was dropped while the client was still stored and the slot empty.
C7_Witness ==
    /\ stopped
    /\ client
    /\ pending = None
    /\ Cardinality({ t \in Submitters : pc[t] # "idle" }) > Len(calls)

\* The connection has not been established yet.
PreConnection == ~client /\ transport.connect \in {"none", "pending"}

\* The calls made with no client stored, and those made with one.
PreCalls == SelectSeq(calls, LAMBDA c : ~c.client)
PostCalls == SelectSeq(calls, LAMBDA c : c.client)

\* C8 (pre-connection buffering).  A send_control call made before the
\* connection is established (and not dropped) starts no write and leaves
\* its payload in the pending slot.  If the connection succeeds, then by the
\* time run() is through _send_pending -- before it reads the battery and
\* blocks on the stop event -- a write has been started; with no call made
\* after connecting it is exactly one write, of the payload the slot held.
C8_PreConnectionBuffering ==
    /\ [][\A t \in Submitters :
            (SubmitStep(t) /\ ~stopped /\ PreConnection) =>
                /\ pc' = [pc EXCEPT ![t] = "done"]
                /\ pending' = Some(Last(calls').payload)
                /\ UNCHANGED << writes, wp, lock_holder, lock_waiters,
                                last_sent, last_payload, ui_queue,
                                transport >>]_vars
    /\ []((PastFlush /\ PreCalls # << >>) =>
            /\ Len(writes) >= 1
            /\ PostCalls = << >> => writes = << Last(PreCalls).payload >>)

\* The connect-time flush of run() is writing the one payload submitted
\* before the connection.
C8_Witness ==
    /\ Len(calls) = 1
    /\ ~calls[1].client
    /\ pc[RunTask] = "write"
    /\ wp[RunTask] = calls[1].payload
    /\ writes = << calls[1].payload >>
    /\ pending = None

\* run() is inside the `async with` body.
InBody ==
    pc[RunTask] \in {"sub_status", "sub_battery", "lock_wait", "locked",
                     "write", "read_battery", "wait"}

\* This step is the return of start_notify to run(), not a cancellation.
SubStatusStep ==
    pc[RunTask] = "sub_status" /\ pc'[RunTask] # "sub_status"
    /\ ncancel' = ncancel
SubBatteryStep ==
    pc[RunTask] = "sub_battery" /\ pc'[RunTask] # "sub_battery"
    /\ ncancel' = ncancel

\* run() has put the warning `text`.
Warned(text) ==
    \E i \in 1 .. Len(ui_queue[RunTask]) :
        /\ ui_queue[RunTask][i].kind = "warn"
        /\ ui_queue[RunTask][i].data = text

ConnectionErrors ==
    Len(SelectSeq(ui_queue[RunTask],
                  LAMBDA e : e.kind = "error" /\ e.data = "Connection error"))

\* C9 (subscription failures are independent and not fatal).  When the
\* status subscription fails, a Warning is put, the flag stays clear and the
\* battery subscription is attempted next; when the battery subscription
\* fails, a Warning is put and run() goes on to the flush and the battery
\* read; neither failure puts an Error, clears the client or starts the
\* teardown, and the outcome of one does not touch the flag of the other.
\* With both failed the session runs on with neither flag set.
C9_SubscriptionFailuresNotFatal ==
    /\ [][SubStatusStep =>
            /\ pc'[RunTask] = "sub_battery"
            /\ transport' = [transport EXCEPT !.sub_battery = @ + 1]
            /\ UNCHANGED << client, result, exc, battery_notify >>
            /\ ui_queue' =
                 IF status_notify' THEN ui_queue
                 ELSE queue_ui(ui_queue, RunTask,
                               Event("warn", "Status notify failed"))]_vars
    /\ [][SubBatteryStep =>
            /\ pc'[RunTask] \in {"write", "lock_wait", "read_battery"}
            /\ transport'.disconnects = 0
            /\ UNCHANGED << client, result, exc, status_notify >>
            /\ ui_queue' =
                 IF battery_notify' THEN ui_queue
                 ELSE queue_ui(ui_queue, RunTask,
                               Event("warn", "Battery notify failed"))]_vars
    /\ [](InBody =>
            /\ client /\ result = "running"
            /\ ConnectionErrors = 0 /\ Disconnects = 0
            /\ transport.disconnects = 0)
    /\ [](/\ Warned("Status notify failed") => ~status_notify
          /\ Warned("Battery notify failed") => ~battery_notify)

\* Both subscriptions failed and run() waits for the stop event.
C9_Witness ==
    /\ pc[RunTask] = "wait"
    /\ Warned("Status notify failed")
    /\ Warned("Battery notify failed")
    /\ ~status_notify /\ ~battery_notify
    /\ transport.reads = 1
    /\ ~stopped

\* C10 (connection failure).  When the initial connect fails, run() puts an
\* Error and then a Disconnected event and no Connected event, attempts no
\* subscription, no write and no battery read, leaves no client stored and
\* returns to its caller without raising.
C10_ConnectionFailure ==
    transport.connect = "failed" =>
        /\ Kinds(RunTask) = << "message", "error", "disconnected" >>
        /\ pc[RunTask] = "done"
        /\ result = "returned"
        /\ ~client /\ ~status_notify /\ ~battery_notify
        /\ transport.sub_status = 0 /\ transport.sub_battery = 0
        /\ transport.unsub_status = 0 /\ transport.unsub_battery = 0
        /\ transport.reads = 0 /\ transport.disconnects = 0
        /\ writes = << >> /\ InFlight = {}
        /\ \A t \in Procs \ {RunTask} : ui_queue[t] = << >>

\* The connect failed with a payload buffered: it stays in the slot unsent.
C10_Witness ==
    /\ transport.connect = "failed"
    /\ pending # None
    /\ Len(calls) = 2
    /\ stopped

\* This step puts `item` on the queue as task t and puts nothing else.  (The
\* kind of an item fixes the type of its data, so kinds are compared first.)
Puts(t, item) ==
    /\ \A u \in Procs \ {t} : Len(ui_queue'[u]) = Len(ui_queue[u])
    /\ Len(ui_queue'[t]) = Len(ui_queue[t]) + 1
    /\ Kinds(t)' = Append(Kinds(t), item.kind)
    /\ Last(ui_queue'[t]).data = item.data

\* This step puts nothing on the queue.
PutsNothing == \A u \in Procs : Len(ui_queue'[u]) = Len(ui_queue[u])

\* This step is the return of write_gatt_char to task t (not a cancellation
\* of the task at that await).
WriteReturnStep(t) ==
    /\ pc[t] = "write"
    /\ ncancel' = ncancel
    /\ pc'[t] # "write" \/ ui_queue'[t] # ui_queue[t]

SendError == Event("error", "ERROR sending command")

\* The write errors task t has reported.
WriteErrors(t) ==
    Len(SelectSeq(ui_queue[t],
                  LAMBDA e : e.kind = "error" /\ e.data = "ERROR sending command"))

\* C11 (write failure).  When write_gatt_char returns, the drain either
\* records the payload as sent and puts a PayloadSent event, or -- the write
\* failed -- puts an Error event and nothing else: no PayloadSent event for
\* that payload, the last-sent payload stays as it was, the drain starts no
\* further write (it releases the lock and returns, leaving the slot as it
\* is).  The failed payload is not written again by itself: every write is
\* supplied by a send_control call made since the write before it started.
C11_WriteFailure ==
    /\ [][\A t \in Drainers : WriteReturnStep(t) =>
            \/ /\ Puts(t, Event("payload", wp[t]))
               /\ last_sent' = Some(wp[t])
            \/ /\ Puts(t, SendError)
               /\ UNCHANGED << last_sent, last_payload, pending, writes, wp >>
               /\ pc'[t] = AfterDrainPc(t)
               /\ lock_holder' # t
               /\ InFlight' = {}]_vars
    /\ [](\A i \in 1 .. Len(writes) :
            \E j \in 1 .. Len(calls) :
                calls[j].nwrites = i - 1 /\ calls[j].payload = writes[i])

\* A write failed while another payload was submitted: the failing drain
\* ended without taking the new payload and nothing counts as sent.
C11_Witness ==
    /\ \E t \in Submitters : WriteErrors(t) = 1 /\ pc[t] = "done"
    /\ Len(writes) = 1
    /\ last_sent = None
    /\ pending # None /\ pending # Some(writes[1])
    /\ client /\ ~stopped
    /\ InFlight = {}

\* This step is the call of request_battery by task t, resp. the return of
\* its read_gatt_char.
RequestStep(t) == pc[t] = "idle" /\ pc'[t] # "idle"
RequestReadStep(t) == pc[t] = "read_battery" /\ pc'[t] # "read_battery"

DeferredMessage ==
    Event("message", "Battery read queued; waiting for connection")

ReadWarning == Event("warn", "Initial battery read failed")

\* The read recorded a value and put it as a TelemetryBattery event.
ReadRecorded(t) ==
    /\ battery_pct' # None
    /\ Puts(t, Event("battery", battery_pct'[1]))

\* C12 as stated (request_battery).  Whenever no client is stored the call
\* puts the deferral Message and reads nothing; whenever one is stored the
\* call issues one battery read, and the read then either records the value
\* and puts TelemetryBattery(value) or puts a Warning.
C12_RequestBattery ==
    [][\A t \in Requesters :
         /\ RequestStep(t) =>
              IF ~client
              THEN /\ Puts(t, DeferredMessage)
                   /\ transport' = transport
              ELSE /\ transport' = [transport EXCEPT !.reads = @ + 1]
                   /\ pc'[t] = "read_battery"
         /\ RequestReadStep(t) =>
              \/ ReadRecorded(t)
              \/ /\ Puts(t, ReadWarning)
                 /\ battery_pct' = battery_pct]_vars

\* C12 as amended.  A request_battery call made after stop() does nothing.
\* Otherwise: with no client stored it puts the deferral Message and reads
\* nothing; with one stored it issues one battery read and nothing else,
\* and when the read returns it records the value and puts
\* TelemetryBattery(value), or puts a Warning (the read failed), or changes
\* nothing (the read returned no bytes); no further read follows.
C12_RequestBatteryAmended ==
    [][\A t \in Requesters :
         /\ RequestStep(t) =>
              IF stopped
              THEN /\ pc'[t] = "done"
                   /\ UNCHANGED << session, aux >>
              ELSE IF ~client
              THEN /\ Puts(t, DeferredMessage)
                   /\ transport' = transport
                   /\ pc'[t] = "done"
                   /\ battery_pct' = battery_pct
              ELSE /\ transport' = [transport EXCEPT !.reads = @ + 1]
                   /\ pc'[t] = "read_battery"
                   /\ PutsNothing /\ battery_pct' = battery_pct
         /\ RequestReadStep(t) =>
              /\ pc'[t] = "done"
              /\ transport' = transport
              /\ \/ ReadRecorded(t)
                 \/ /\ Puts(t, ReadWarning)
                    /\ battery_pct' = battery_pct
                 \/ PutsNothing /\ battery_pct' = battery_pct]_vars

\* A request made while connected read the battery a second time, after
\* run()'s own read had failed, and recorded the value.
C12_Witness ==
    \E t \in Requesters :
        /\ pc[t] = "done"
        /\ Kinds(t) = << "battery" >>
        /\ ui_queue[t][1].data = 42
        /\ battery_pct = Some(42)
        /\ transport.reads = 2
        /\ CountKind(RunTask, "warn") = 1
        /\ CountKind(RunTask, "battery") = 0

\* The items the queue took, in the order they were put.
Retained ==
    LET kept == SelectSeq(offered, LAMBDA o : o.kept)
    IN  [i \in 1 .. Len(kept) |-> kept[i].item]

\* The session's items still in the queue (the sentinel aside).
Queued == SelectSeq(chan, LAMBDA e : e # Shutdown)

\* This step is a _queue_ui call.
PushStep == Len(offered') = Len(offered) + 1

\* C13 (event queue backpressure).  A _queue_ui call is never held up: it
\* can be made, and completes in the one step, whatever the queue holds.
\* When the queue is full the item put is dropped and the queue is left
\* exactly as it was; otherwise the item goes to the back.  The items the
\* queue took are handed to the consumer in the order they were put, none
\* twice and none lost: at any time they are those delivered so far followed
\* by those still queued.
C13_Backpressure ==
    /\ [][PushStep =>
            /\ IF Full(chan)
               THEN chan' = chan /\ ~Last(offered').kept
               ELSE chan' = Append(chan, Last(offered').item)
                    /\ Last(offered').kept
            /\ UNCHANGED << delivered, consumer, maxsize >>]_vars
    /\ [](Len(offered) < MaxPush =>
            \A item \in ChannelItems : ENABLED QueueUi(item))
    /\ [](Retained = delivered \o Queued)
    /\ [](maxsize > 0 => Len(chan) <= maxsize)

\* On a bounded queue an item was dropped, the consumer then made room and
\* a later item was taken; two items have been delivered.
C13_Witness ==
    /\ maxsize = MaxQueue
    /\ Len(delivered) >= 2
    /\ \E i, j \in 1 .. Len(offered) :
           i < j /\ ~offered[i].kept /\ offered[j].kept

\* The keys of a decoded status frame.
StatusKeys ==
    {"length", "mode", "forward", "reverse", "left", "right", "lights",
     "turbo", "donut"}

\* C14 (codec round trip).  For every ControlState, decoding the payload
\* built from it gives a status frame of length 8 whose fields mode,
\* forward, reverse, left, right, lights, turbo, donut are bytes 0..7 of
\* that payload, in that order.
C14_CodecRoundTrip ==
    cframe # EmptyDict =>
        /\ DOMAIN cframe = StatusKeys
        /\ cframe.length = 8
        /\ Len(cpayload[1]) = 8
        /\ << cframe.mode, cframe.forward, cframe.reverse, cframe.left,
              cframe.right, cframe.lights, cframe.turbo, cframe.donut >>
             = cpayload[1]

\* Reverse and right with turbo, mode 513: the frame reads mode 1, reverse,
\* right, turbo.
C14_Witness ==
    /\ cframe # EmptyDict
    /\ cstate.mode = 513 /\ cstate.throttle < 0 /\ cstate.steering > 0
    /\ cstate.turbo /\ ~cstate.lights
    /\ cframe.mode = 1 /\ cframe.reverse = 1 /\ cframe.right = 1
    /\ cframe.left = 0 /\ cframe.turbo = 1 /\ cframe.lights = 0

\* C15 (direction bits are exclusive).  For every throttle and steering
\* value the payload built has forward = 1 iff throttle > 0, reverse = 1 iff
\* throttle < 0, left = 1 iff steering < 0, right = 1 iff steering > 0, so
\* never forward and reverse together, never left and right together; each
\* of bytes 1..7 is 0 or 1 and the payload is 8 bytes long.
C15_DirectionBits ==
    cpayload # None =>
        LET p == cpayload[1] IN
        /\ Len(p) = 8
        /\ p[2] = 1 <=> cstate.throttle > 0
        /\ p[3] = 1 <=> cstate.throttle < 0
        /\ p[4] = 1 <=> cstate.steering < 0
        /\ p[5] = 1 <=> cstate.steering > 0
        /\ ~(p[2] = 1 /\ p[3] = 1)
        /\ ~(p[4] = 1 /\ p[5] = 1)
        /\ \A i \in 2 .. 8 : p[i] \in {0, 1}
        /\ p[1] \in 0 .. 255

\* Throttle -2 and steering 3: reverse and right set, forward and left not.
C15_Witness ==
    /\ cpayload # None
    /\ cstate.throttle = -2 /\ cstate.steering = 3
    /\ cpayload[1][2] = 0 /\ cpayload[1][3] = 1
    /\ cpayload[1][4] = 0 /\ cpayload[1][5] = 1

\* The value of a hexadecimal digit.
HexValue(ch) == CHOOSE k \in 0 .. 15 : HexDigits[k + 1] = ch

\* C16 (decode is total and selected by length).  decode_status_payload can
\* be applied to every byte string, of length 0, 2, 7, 9 and 255 too, and
\* returns a reading carrying the length: for length 1 a battery reading
\* with the byte's value, for length 8 a status frame, for any other length
\* an unrecognized reading with the hex text of the bytes.
C16_DecodeTotal ==
    /\ creading = EmptyDict => ENABLED DecodeData
    /\ creading # EmptyDict =>
         LET n == Len(cdata) IN
         /\ creading.length = n
         /\ n = 1 => /\ DOMAIN creading = {"length", "battery_pct"}
                     /\ creading.battery_pct = cdata[1]
         /\ n = 8 => DOMAIN creading = StatusKeys
         /\ n \notin {1, 8} =>
              /\ DOMAIN creading = {"length", "raw"}
              /\ Len(creading.raw) = 2 * n
              /\ \A i \in 1 .. n :
                    16 * HexValue(creading.raw[2 * i - 1])
                       + HexValue(creading.raw[2 * i]) = cdata[i]

\* 255 bytes of 0xab decode to an unrecognized reading whose text starts
\* "ab".
C16_Witness ==
    /\ creading # EmptyDict
    /\ Len(cdata) = 255
    /\ cdata[1] = 171
    /\ DOMAIN creading = {"length", "raw"}
    /\ creading.length = 255
    /\ creading.raw[1] = "a" /\ creading.raw[2] = "b"

\* No task is inside _write_pending: none awaits the write, queues for the
\* lock or has just been handed it.
NoDrain ==
    \A t \in Drainers : pc[t] \notin {"write", "lock_wait", "locked"}

NoWriteFailed == \A t \in Drainers : WriteErrors(t) = 0

\* C17 (latest intent wins).  Whenever a client is stored, the session is
\* not stopped, no write has failed, no task is in a drain and the pending
\* slot is empty, the last payload transmitted is the payload of the most
\* recent send_control call, if any was made.
C17_LatestIntentWins ==
    ( /\ client /\ ~stopped
      /\ NoWriteFailed
      /\ NoDrain
      /\ pending = None
      /\ calls # << >> ) =>
        last_sent = Some(Last(calls).payload)

\* The client handle was stored and the teardown of run() has cleared it.
Cleared == ~client /\ transport.connect = "ok"

\* C18 (disconnection mid-drain).  Once the teardown has cleared the client
\* handle no write is started: a drain whose write was in flight then
\* leaves its loop when that write returns, without another write, and so
\* does a drain that was queued for the lock; a payload submitted in the
\* meantime stays in the pending slot, which only a later send_control call
\* changes.
C18_DisconnectMidDrain ==
    [][Cleared =>
         /\ writes' = writes
         /\ Cleared'
         /\ \A t \in Submitters :
               (pc[t] \in {"write", "locked"} /\ pc'[t] # pc[t]) =>
                   pc'[t] = "done" /\ pending' = pending
         /\ pending' # pending =>
               \E t \in Submitters :
                   SubmitStep(t) /\ pending' = Some(Last(calls').payload)]_vars

\* The second call queued for the lock while the first's write was in
\* flight; the teardown cleared the handle before that write returned, and
\* both drains have ended: the second payload is still in the slot, unsent.
C18_Witness ==
    /\ Cleared
    /\ NoDrain /\ NoWriteFailed
    /\ Len(calls) = 2
    /\ calls[2].client /\ calls[2].nwrites = 1
    /\ calls[1].payload # calls[2].payload
    /\ writes = << calls[1].payload >>
    /\ last_sent = Some(calls[1].payload)
    /\ pending = Some(calls[2].payload)
    /\ \A t \in Submitters : pc[t] = "done"

\* C19 (writes need the client handle).  A write to the control
\* characteristic is started only in a step taken with the client handle
\* stored: none before run() stores it at connect time, none once the
\* teardown has cleared it; the Disconnected event is put in the step that
\* clears it, so no write starts after that event.
C19_WriteOnlyWhileConnected ==
    /\ [][Len(writes') > Len(writes) =>
            /\ client /\ client'
            /\ transport.connect = "ok"
            /\ Disconnects = 0]_vars
    /\ [](Disconnects >= 1 => ~client)
    /\ [](transport.connect \in {"none", "pending"} => writes = << >>)

\* One payload was written while connected; the task was cancelled, the
\* teardown put Disconnected, and a later call only filled the slot.
C19_Witness ==
    /\ Disconnects = 1
    /\ ~stopped
    /\ Len(calls) = 2
    /\ calls[1].client /\ ~calls[2].client
    /\ calls[2].nwrites = 1
    /\ Len(writes) = 1
    /\ pending = Some(calls[2].payload)
    /\ NoDrain

\* This step is a notification callback: _status_handler, _battery_handler.
StatusStep ==
    nnotify' = nnotify + 1
    /\ Len(ui_queue'[StatusCallback]) # Len(ui_queue[StatusCallback])
BatteryStep ==
    nnotify' = nnotify + 1
    /\ Len(ui_queue'[BatteryCallback]) # Len(ui_queue[BatteryCallback])

\* What no callback touches: the tasks' positions, the write path, the
\* client handle, the flags and the calls made on the transport.
NotifyFrame ==
    UNCHANGED << pc, wp, client, status_notify, battery_notify, stop_event,
                 stopped, pending, last_sent, last_payload, lock_holder,
                 lock_waiters, exc, result, transport, ncancel, calls,
                 writes >>

\* C20 (notification callbacks).  Every notification delivered runs one of
\* the two callbacks, which puts exactly one event and starts no transport
\* write or read; it leaves the pending slot, the last-sent payload, the
\* client handle, the stopped flag and the subscription flags as they are.
\* _status_handler stores the decoded status and its hex text, puts
\* TelemetryStatus and leaves the battery value alone; _battery_handler
\* leaves the stored status alone and either records a battery value and
\* puts TelemetryBattery with it, or puts TelemetryStatus.
C20_NotificationCallbacks ==
    /\ [][nnotify' # nnotify => (StatusStep \/ BatteryStep) /\ NotifyFrame]_vars
    /\ [][StatusStep =>
            /\ Puts(StatusCallback, Event("status", "None"))
            /\ battery_pct' = battery_pct
            /\ last_status'.length * 2 = Len(last_status_hex')]_vars
    /\ [][BatteryStep =>
            /\ UNCHANGED << last_status, last_status_hex >>
            /\ \/ /\ battery_pct' # None
                  /\ Puts(BatteryCallback, Event("battery", battery_pct'[1]))
               \/ /\ battery_pct' = battery_pct
                  /\ Puts(BatteryCallback, Event("status", "None"))]_vars

\* A status frame and a two-byte battery notification were delivered while
\* a payload waited in the slot: the status of the frame is stored and the
\* battery value is the first byte of the other.
C20_Witness ==
    /\ CountKind(StatusCallback, "status") = 1
    /\ CountKind(BatteryCallback, "battery") = 1
    /\ last_status # EmptyDict
    /\ last_status.length = 8
    /\ battery_pct = Some(171)
    /\ pending # None

\* This step is the return, normal or raising, of stop_notify for the
\* status resp. the battery characteristic to task t.
UnsubStatusStep(t) == pc[t] = "unsub_status" /\ pc'[t] # "unsub_status"
UnsubBatteryStep(t) == pc[t] = "unsub_battery" /\ pc'[t] # "unsub_battery"

\* This step takes run() through lines 121-122 to its normal end.
TeardownEnds ==
    /\ ~client'
    /\ Puts(RunTask, Event("disconnected", "None"))
    /\ result' = "returned"

\* C21 (teardown steps are independent).  Whether stop_notify for the
\* status characteristic returns or raises, the flag is cleared, no error
\* leaves _disable_notifications, and the battery unsubscribe is attempted
\* when that subscription is active; whether either unsubscribe returns or
\* raises, run() goes on to clear the client handle and put Disconnected;
\* and when a task is through the unsubscribe step both subscription flags
\* are false.
C21_TeardownIndependent ==
    /\ []( /\ result # "raised"
           /\ result = "returned" => ~client /\ Disconnects = 1 )
    /\ [][\A t \in Unsubscribers :
            UnsubStatusStep(t) =>
                /\ ~status_notify'
                /\ exc' = exc
                /\ IF battery_notify
                   THEN /\ pc'[t] = "unsub_battery"
                        /\ transport'.unsub_battery
                               = transport.unsub_battery + 1
                        /\ PutsNothing
                        /\ client' = client
                   ELSE /\ pc'[t] = "done"
                        /\ ~battery_notify'
                        /\ transport' = transport
                        /\ IF t = RunTask THEN TeardownEnds
                           ELSE PutsNothing /\ client' = client]_vars
    /\ [][\A t \in Unsubscribers :
            UnsubBatteryStep(t) =>
                /\ ~status_notify' /\ ~battery_notify'
                /\ exc' = exc
                /\ pc'[t] = "done"
                /\ transport' = transport
                /\ IF t = RunTask THEN TeardownEnds
                   ELSE PutsNothing /\ client' = client]_vars

\* Both unsubscribe calls of run()'s teardown raised, and run() has ended
\* normally with the client handle cleared and Disconnected put.
C21_Witness ==
    /\ << RunTask, "status" >> \in unsub_raised
    /\ << RunTask, "battery" >> \in unsub_raised
    /\ transport.unsub_status = 1
    /\ transport.unsub_battery = 1
    /\ result = "returned"
    /\ ~client
    /\ ~status_notify /\ ~battery_notify
    /\ Disconnects = 1

\* C22 (each subscription is unsubscribed at most once).  stop_notify is
\* called at most once for the status characteristic and at most once for
\* the battery characteristic in a session, however stop() and the teardown
\* of run() interleave.
C22_UnsubscribeAtMostOnce ==
    /\ transport.unsub_status <= 1
    /\ transport.unsub_battery <= 1

\* C24 (the two encoders agree).  For every mode, throttle, steering,
\* lights, turbo and donut value, build_control_payload of src/control.py
\* and build_control_payload of src/test.py return the same 8 bytes.
C24_EncodersAgree ==
    (cpayload # None /\ tpayload # None) =>
        /\ tpayload = cpayload
        /\ Len(tpayload[1]) = 8

\* Both encoders were applied to mode 513, throttle -2, steering 3 with the
\* lights and the donut flag on: each gave 01 00 01 00 01 01 00 01.
C24_Witness ==
    /\ cpayload # None /\ tpayload # None
    /\ cstate.mode = 513 /\ cstate.throttle = -2 /\ cstate.steering = 3
    /\ cstate.lights /\ ~cstate.turbo /\ cstate.donut
    /\ tpayload[1] = << 1, 0, 1, 0, 1, 1, 0, 1 >>
    /\ cpayload[1] = << 1, 0, 1, 0, 1, 1, 0, 1 >>

\* The four direction bytes of a payload are 0.
Neutral(p) == p[2] = 0 /\ p[3] = 0 /\ p[4] = 0 /\ p[5] = 0

\* The shutdown call of task t found the running flag set and a client
\* stored, and has returned from stop().
ShutdownCompleted(t) == t \in shut_connected /\ pc[t] = "done"

\* C23 (shutdown leaves the vehicle commanded to neutral).  When a shutdown
\* call made while the session is connected has completed and no write has
\* failed, the last payload handed to the transport has forward, reverse,
\* left and right all 0, however the call interleaves with the send_control
\* tasks the keys made and with a write in flight.
C23_ShutdownNeutral ==
    \A t \in Quitters :
        (ShutdownCompleted(t) /\ NoWriteFailed) =>
            /\ writes # << >>
            /\ Neutral(Last(writes))

\* A shutdown call that finds the running flag cleared changes nothing but
\* its own position.
SecondShutdownNoOp ==
    [][\A t \in Quitters :
          (pc[t] = "idle" /\ pc'[t] # "idle" /\ ~running) =>
              /\ pc'[t] = "done"
              /\ UNCHANGED << core, beyond, front >>]_vars

====
